---- MODULE Spec2Model ----
(***************************************************************************)
(* Batch job runner of the Spotify playlist downloader GUI.                *)
(*                                                                         *)
(* The repository holds two near-duplicate implementations of the batch    *)
(* runner, BatchDownloadThread.run in gui_downloader.py and in             *)
(* gui_test.py.  Both are modelled; the variable impl says which one a     *)
(* behaviour runs.  Text is modelled as sequences of one-character         *)
(* strings so that strip(), startswith(), lower() and the "in" substring   *)
(* test are computed as Python computes them.                              *)
(***************************************************************************)
EXTENDS Integers, Sequences, FiniteSets, TLC

(***************************************************************************)
(* Bounds of the model.                                                    *)
(***************************************************************************)
MaxLines == 2
MaxRetriesSetting == 5
(* how many times a run is entered with the same arguments *)
MaxRuns == 2

(***************************************************************************)
(* Program constants.                                                      *)
(***************************************************************************)
MAX_RETRIES == 5
RETRY_DELAY == 30
(* arity of BatchDownloadThread.update_signal = pyqtSignal(str, str) *)
UpdateSignalArity == 2

Impls == {"gui_downloader", "gui_test"}
(* values the retry-delay spin box can hand to the thread (range 1..60, default 20) *)
RetryDelays == {1, 20}

(***************************************************************************)
(* Text.                                                                   *)
(***************************************************************************)
UpperCase == <<"A", "B", "C", "D", "E", "F", "G", "H", "I", "J", "K", "L", "M",
               "N", "O", "P", "Q", "R", "S", "T", "U", "V", "W", "X", "Y", "Z">>
LowerCase == <<"a", "b", "c", "d", "e", "f", "g", "h", "i", "j", "k", "l", "m",
               "n", "o", "p", "q", "r", "s", "t", "u", "v", "w", "x", "y", "z">>

IsSpace(c) == c \in {" ", "\t", "\n", "\r"}

RECURSIVE LStrip(_)
LStrip(s) == IF s # <<>> /\ IsSpace(Head(s)) THEN LStrip(Tail(s)) ELSE s

RECURSIVE RStrip(_)
RStrip(s) == IF s # <<>> /\ IsSpace(s[Len(s)]) THEN RStrip(SubSeq(s, 1, Len(s) - 1)) ELSE s

(* str.strip() *)
Strip(s) == LStrip(RStrip(s))

(* str.startswith(c) for a one-character prefix *)
StartsWith(s, c) == s # <<>> /\ s[1] = c

LowerChar(c) == IF \E k \in 1..Len(UpperCase) : UpperCase[k] = c
                THEN LowerCase[CHOOSE k \in 1..Len(UpperCase) : UpperCase[k] = c]
                ELSE c

(* str.lower() *)
Lower(s) == [k \in 1..Len(s) |-> LowerChar(s[k])]

(* sub in s *)
Contains(sub, s) == \E k \in 1..(Len(s) - Len(sub) + 1) : SubSeq(s, k, k + Len(sub) - 1) = sub

playlist == <<"p", "l", "a", "y", "l", "i", "s", "t">>
album == <<"a", "l", "b", "u", "m">>

(***************************************************************************)
(* Lines a batch file is made of.                                          *)
(***************************************************************************)
LinePlaylist == <<"h", "t", "t", "p", "s", ":", "/", "/", "x", "/", "p", "l", "a", "y", "l", "i", "s", "t", "/", "1", "\n">>
LineComment == <<"#", " ", "c", "o", "m", "m", "e", "n", "t", "\n">>
LineBlank == <<"\n">>
LineAlbum == <<"h", "t", "t", "p", "s", ":", "/", "/", "x", "/", "a", "l", "b", "u", "m", "/", "2", "\n">>
LineIndentedComment == <<" ", " ", "#", "p", "l", "a", "y", "l", "i", "s", "t", "\n">>
LineTrack == <<"x", "/", "t", "r", "a", "c", "k", "/", "3">>
LineBoth == <<" ", "X", "/", "A", "l", "b", "u", "m", "/", "P", "l", "a", "y", "L", "i", "s", "t", "/", "4", " ", "\n">>

FileLines == {LinePlaylist, LineComment, LineBlank, LineAlbum, LineIndentedComment, LineTrack, LineBoth}

Files == UNION {[1..n -> FileLines] : n \in 0..MaxLines}

(***************************************************************************)
(* What one call of Downloader.run_download can do: return an object with  *)
(* a returncode, return an object without one, or raise.                   *)
(***************************************************************************)
ReturnCodes == {0, 100, 101, 1}
WithCode(rc) == [kind |-> "returned", hasattr |-> TRUE, returncode |-> rc]
NoCode == [kind |-> "returned", hasattr |-> FALSE, returncode |-> 0]
Raised == [kind |-> "raised", hasattr |-> FALSE, returncode |-> 0]
NoResult == [kind |-> "none", hasattr |-> FALSE, returncode |-> 0]
Outcomes == {WithCode(rc) : rc \in ReturnCodes} \cup {NoCode, Raised}

IsSuccess(r) == r.kind = "returned" /\ r.hasattr /\ r.returncode = 0
IsClassified(r) == r.kind = "returned" /\ r.hasattr /\ r.returncode \in {100, 101}
IsUnknown(r) == r \in Outcomes /\ ~IsSuccess(r) /\ ~IsClassified(r)

VARIABLES
    impl,            \* which BatchDownloadThread runs
    readable,        \* whether open(self.filepath) succeeds
    file,            \* the lines of the batch file
    max_retries,     \* constructor argument max_retries
    retry_delay,     \* constructor argument retry_delay
    pc,              \* position of BatchDownloadThread.run
    urls,            \* urls
    total,           \* total
    success,         \* success / success_count
    i,               \* loop variable i of the job loop
    attempt,         \* loop variable attempt of the retry loop
    output_template, \* output_template of the current job
    additional_args, \* additional_args of the current job
    inflight,        \* run_download calls entered and not yet returned
    jobAttempts,     \* run_download calls made for the current job
    jobPauses,       \* time.sleep calls made for the current job
    jobSucc,         \* increments of success made for the current job
    jobsAttempted,   \* jobs for which run_download was called at least once
    lastResult,      \* outcome of the latest attempt of the current job
    lastPause,       \* argument of the latest time.sleep
    lastCall,        \* arguments of the latest run_download
    progress,        \* progress_signal emissions, in order
    finished,        \* finished_signal emissions, in order
    notices,         \* run-level update_signal messages emitted: "read_error", "no_jobs"
    lastEvent,       \* kind of the latest signal emitted
    bSettings,       \* output_dir, bitrate, audio_format given to the batch thread
    dl,              \* _Downloader__output_dir, __bitrate, __audio_format of the shared Downloader
    spc,             \* position of DownloadThread.run
    sUrl,            \* DownloadThread.url
    sType,           \* DownloadThread.download_type
    sSettings,       \* output_dir, bitrate, audio_format given to the download thread
    sCalls,          \* run_download calls made by the download thread
    sCall,           \* arguments of the download thread's run_download call
    sResult,         \* what the download thread's run_download call returned
    sFinished,       \* finished_signal emissions of the download thread, in order
    sHandled,        \* how many of them download_finished has handled
    download_button, \* download_button.isEnabled()
    batch_download_button, \* batch_download_button.isEnabled()
    bHandled,        \* how many finished_signal emissions batch_download_finished has handled
    dirs,            \* directories made by os.makedirs
    guiEvent,        \* the latest GUI handler that ran, with its inputs and its outcome
    window,          \* the window: "open", inside closeEvent, or "closed"
    runNo,           \* how many times run was entered with the present arguments
    prevRun,         \* what the previous run with the present arguments emitted
    classified       \* template selections made so far, when they are observed

vars == <<impl, readable, file, max_retries, retry_delay, pc, urls, total, success, i,
          attempt, output_template, additional_args, inflight, jobAttempts,
          jobPauses, jobSucc, jobsAttempted, lastResult, lastPause, lastCall,
          progress, finished, notices, lastEvent, bSettings, dl, spc, sUrl, sType,
          sSettings, sCalls, sCall, sResult, sFinished, sHandled, download_button,
          batch_download_button, bHandled, dirs, guiEvent, window, runNo, prevRun,
          classified>>

settings == <<impl, readable, file, max_retries, retry_delay, bSettings>>

(* state of the download thread and of the window, which the batch thread never writes *)
singleVars == <<spc, sUrl, sType, sSettings, sCalls, sCall, sResult, sFinished, sHandled>>
guiVars == <<download_button, batch_download_button, bHandled, dirs, guiEvent, window>>

(* state of the batch thread *)
batchVars == <<pc, urls, total, success, i, attempt, output_template, additional_args,
               inflight, jobAttempts, jobPauses, jobSucc, jobsAttempted, lastResult,
               lastPause, lastCall, progress, finished, notices, lastEvent, runNo,
               prevRun>>

(***************************************************************************)
(* Settings the window can hand to a thread: the widgets' defaults, another *)
(* choice of the user, and the fixed settings of start_batch_download.     *)
(***************************************************************************)
DefaultSettings == [output_dir |-> "Downloads", bitrate |-> "320k", audio_format |-> "mp3"]
OtherSettings == [output_dir |-> "Music", bitrate |-> "128k", audio_format |-> "flac"]
FixedBatchSettings == [output_dir |-> "BatchDownloads", bitrate |-> "320k", audio_format |-> "mp3"]
GuiSettings == {DefaultSettings, OtherSettings}
(* the Downloader's fields before any thread has configured it *)
NoSettings == [output_dir |-> "", bitrate |-> "", audio_format |-> ""]
NoEvent == [handler |-> "none", text |-> <<>>, search |-> FALSE, outcome |-> "none"]
(* no earlier run with the present arguments *)
NoRun == [ended |-> "none", finished |-> <<>>, progress |-> <<>>, jobsAttempted |-> 0]
(* the record of template selections: not kept, or kept and still empty *)
NotObserved == [on |-> FALSE, seen |-> {}]
Observed == [on |-> TRUE, seen |-> {}]

(***************************************************************************)
(* urls = [line.strip() for line in file                                   *)
(*         if line.strip() and not line.strip().startswith('#')]           *)
(***************************************************************************)
(* the comment test applied to the raw line instead of the stripped one *)
KeepLineRawComment(line) == Strip(line) # <<>> /\ ~StartsWith(line, "#")

(* the emptiness test left out *)
KeepLineNoBlankTest(line) == ~StartsWith(Strip(line), "#")

KeepLine(line) == Strip(line) # <<>> /\ ~StartsWith(Strip(line), "#")

RECURSIVE ParseUrls(_)
ParseUrls(lines) ==
    IF lines = <<>> THEN <<>>
    ELSE IF KeepLine(Head(lines))
         THEN <<Strip(Head(lines))>> \o ParseUrls(Tail(lines))
         ELSE ParseUrls(Tail(lines))

(***************************************************************************)
(* Signals.  emit() raises TypeError unless it is given as many arguments  *)
(* as the signal declares.                                                 *)
(***************************************************************************)
EmitRaises(nargs) == nargs # UpdateSignalArity

(* number of arguments each update_signal.emit call site passes *)
ReadErrorEmitArgs(im) == IF im = "gui_downloader" THEN 1 ELSE 2
SuccessEmitArgs(im) == IF im = "gui_downloader" THEN 1 ELSE 2
NonRetryableEmitArgs(im) == IF im = "gui_downloader" THEN 1 ELSE 2
FailedEmitArgs(im) == IF im = "gui_downloader" THEN 1 ELSE 2

(* bound of the retry loop and argument of time.sleep *)
RetryLimit(im, mr) == IF im = "gui_downloader" THEN MAX_RETRIES ELSE mr
SleepSeconds(im, rd) == IF im = "gui_downloader" THEN RETRY_DELAY ELSE rd

(***************************************************************************)
(* Template selection of the job loop.  None is written <<>>.  In          *)
(* gui_downloader.py the playlist branch reads self.__output_dir, which    *)
(* no method assigns: AttributeError, outside any try.                     *)
(***************************************************************************)
PlaylistArgs == <<"--playlist-numbering", "--playlist-retain-track-cover">>

(* no else branch: a url without "playlist" and "album" keeps the template
   and the arguments of the job before it *)
ClassifyKeepsPrevious(im, url) ==
    IF im = "gui_test"
    THEN IF Contains(playlist, Lower(url))
         THEN [raises |-> FALSE, output_template |-> "{playlist}/{title}.{output-ext}",
               additional_args |-> PlaylistArgs]
         ELSE IF Contains(album, Lower(url))
         THEN [raises |-> FALSE, output_template |-> "{artist}/{album}/{title}.{output-ext}",
               additional_args |-> <<>>]
         ELSE [raises |-> FALSE, output_template |-> output_template,
               additional_args |-> additional_args]
    ELSE IF Contains(album, Lower(url))
         THEN [raises |-> FALSE, output_template |-> "{artist}/{album}/{title}.{output-ext}",
               additional_args |-> <<>>]
         ELSE IF Contains(playlist, Lower(url))
         THEN [raises |-> TRUE, output_template |-> "", additional_args |-> <<>>]
         ELSE [raises |-> FALSE, output_template |-> output_template,
               additional_args |-> additional_args]

Classify(im, url) ==
    IF im = "gui_test"
    THEN IF Contains(playlist, Lower(url))
         THEN [raises |-> FALSE, output_template |-> "{playlist}/{title}.{output-ext}",
               additional_args |-> PlaylistArgs]
         ELSE IF Contains(album, Lower(url))
         THEN [raises |-> FALSE, output_template |-> "{artist}/{album}/{title}.{output-ext}",
               additional_args |-> <<>>]
         ELSE [raises |-> FALSE, output_template |-> "{artist} - {title}.{output-ext}",
               additional_args |-> <<>>]
    ELSE IF Contains(album, Lower(url))
         THEN [raises |-> FALSE, output_template |-> "{artist}/{album}/{title}.{output-ext}",
               additional_args |-> <<>>]
         ELSE IF Contains(playlist, Lower(url))
         THEN [raises |-> TRUE, output_template |-> "", additional_args |-> <<>>]
         ELSE [raises |-> FALSE, output_template |-> "{title}.{output-ext}",
               additional_args |-> <<>>]

(***************************************************************************)
(* The except clause of the retry loop: report, then break on the last     *)
(* attempt, else sleep.                                                    *)
(***************************************************************************)
(* the test for the last attempt left out: the clause always sleeps *)
ExceptClauseAlwaysSleeps(att, limit, inc) ==
    [event |-> "exception", inc |-> inc, next |-> "sleep"]

ExceptClause(att, limit, inc) ==
    [event |-> "exception", inc |-> inc,
     next |-> IF att = limit THEN "break" ELSE "sleep"]

(***************************************************************************)
(* One pass of the retry loop's body after run_download has returned r or  *)
(* raised: what is emitted last, by how much success grows, and whether    *)
(* the loop breaks, sleeps or falls off its last iteration.                *)
(***************************************************************************)
HandleResult(im, r, att, limit) ==
    IF r.kind = "raised" THEN ExceptClause(att, limit, 0)
    ELSE IF r.hasattr /\ r.returncode = 0
    THEN IF EmitRaises(SuccessEmitArgs(im))
         THEN ExceptClause(att, limit, 1)
         ELSE [event |-> "success", inc |-> 1, next |-> "break"]
    ELSE IF r.hasattr /\ r.returncode \in {100, 101}
    THEN IF EmitRaises(NonRetryableEmitArgs(im))
         THEN ExceptClause(att, limit, 0)
         ELSE [event |-> "non_retryable", inc |-> 0, next |-> "break"]
    ELSE IF att < limit
    THEN [event |-> "attempt_start", inc |-> 0, next |-> "sleep"]
    ELSE IF EmitRaises(FailedEmitArgs(im))
         THEN ExceptClause(att, limit, 0)
         ELSE [event |-> "failed", inc |-> 0, next |-> "break"]

InitBatch(files) ==
    /\ impl \in Impls
    /\ readable \in BOOLEAN
    /\ file \in files
    /\ (~readable => file = <<>>)
    /\ max_retries \in 1..MaxRetriesSetting
    /\ retry_delay \in RetryDelays
    /\ pc = "start"
    /\ urls = <<>>
    /\ total = 0
    /\ success = 0
    /\ i = 0
    /\ attempt = 0
    /\ output_template = ""
    /\ additional_args = <<>>
    /\ inflight = 0
    /\ jobAttempts = 0
    /\ jobPauses = 0
    /\ jobSucc = 0
    /\ jobsAttempted = 0
    /\ lastResult = NoResult
    /\ lastPause = 0
    /\ lastCall = <<>>
    /\ progress = <<>>
    /\ finished = <<>>
    /\ notices = {}
    /\ lastEvent = "none"
    /\ bSettings = DefaultSettings
    /\ runNo = 1
    /\ prevRun = NoRun

(* no download thread exists, the window is as init_ui leaves it *)
InitWindow ==
    /\ dl = NoSettings
    /\ spc = "none"
    /\ sUrl = <<>>
    /\ sType = "none"
    /\ sSettings = NoSettings
    /\ sCalls = 0
    /\ sCall = <<>>
    /\ sResult = NoResult
    /\ sFinished = <<>>
    /\ sHandled = 0
    /\ download_button = TRUE
    /\ batch_download_button = TRUE
    /\ bHandled = 0
    /\ dirs = {}
    /\ guiEvent = NoEvent
    /\ window = "open"

Init == InitBatch(Files) /\ InitWindow /\ classified = NotObserved

(***************************************************************************)
(* run, up to the job loop: read the file, leave on a read error or on an  *)
(* empty url list, else set total and success.                             *)
(***************************************************************************)
(* success_count = 0 left out *)
BatchReadUrlsKeepsSuccess ==
    /\ pc = "start"
    /\ IF ~readable
       THEN IF EmitRaises(ReadErrorEmitArgs(impl))
            THEN /\ pc' = "crashed"
                 /\ UNCHANGED <<finished, notices, lastEvent>>
            ELSE /\ pc' = "done"
                 /\ notices' = notices \cup {"read_error"}
                 /\ finished' = Append(finished, <<0, 0>>)
                 /\ lastEvent' = "summary"
       ELSE IF ParseUrls(file) = <<>>
            THEN /\ pc' = "done"
                 /\ notices' = notices \cup {"no_jobs"}
                 /\ finished' = Append(finished, <<0, 0>>)
                 /\ lastEvent' = "summary"
            ELSE /\ pc' = "loop"
                 /\ UNCHANGED <<finished, notices, lastEvent>>
    /\ urls' = IF readable THEN ParseUrls(file) ELSE urls
    /\ total' = IF readable /\ ParseUrls(file) # <<>> THEN Len(ParseUrls(file)) ELSE total
    /\ success' = success
    /\ UNCHANGED <<settings, i, attempt, output_template, additional_args, inflight,
                   jobAttempts, jobPauses, jobSucc, jobsAttempted,
                   lastResult, lastPause, lastCall, progress>>
    /\ dl' = bSettings
    /\ UNCHANGED <<singleVars, guiVars, runNo, prevRun, classified>>

BatchReadUrls ==
    /\ pc = "start"
    /\ IF ~readable
       THEN IF EmitRaises(ReadErrorEmitArgs(impl))
            THEN /\ pc' = "crashed"
                 /\ UNCHANGED <<finished, notices, lastEvent>>
            ELSE /\ pc' = "done"
                 /\ notices' = notices \cup {"read_error"}
                 /\ finished' = Append(finished, <<0, 0>>)
                 /\ lastEvent' = "summary"
       ELSE IF ParseUrls(file) = <<>>
            THEN /\ pc' = "done"
                 /\ notices' = notices \cup {"no_jobs"}
                 /\ finished' = Append(finished, <<0, 0>>)
                 /\ lastEvent' = "summary"
            ELSE /\ pc' = "loop"
                 /\ UNCHANGED <<finished, notices, lastEvent>>
    /\ urls' = IF readable THEN ParseUrls(file) ELSE urls
    /\ total' = IF readable /\ ParseUrls(file) # <<>> THEN Len(ParseUrls(file)) ELSE total
    /\ success' = 0
    /\ UNCHANGED <<settings, i, attempt, output_template, additional_args, inflight,
                   jobAttempts, jobPauses, jobSucc, jobsAttempted,
                   lastResult, lastPause, lastCall, progress>>
    /\ dl' = bSettings
    /\ UNCHANGED <<singleVars, guiVars, runNo, prevRun, classified>>

(***************************************************************************)
(* Head of the job loop for the next url: progress and "Processing"        *)
(* events, template selection, entry of the retry loop.                    *)
(***************************************************************************)
BatchNextJob ==
    /\ pc = "loop"
    /\ i < total
    /\ i' = i + 1
    /\ progress' = Append(progress, <<i + 1, total>>)
    /\ lastEvent' = "processing"
    /\ LET c == Classify(impl, urls[i + 1]) IN
       IF c.raises
       THEN /\ pc' = "crashed"
            /\ UNCHANGED <<output_template, additional_args, attempt>>
       ELSE /\ output_template' = c.output_template
            /\ additional_args' = c.additional_args
            /\ attempt' = 1
            /\ pc' = IF 1 <= RetryLimit(impl, max_retries) THEN "attempt" ELSE "loop"
    /\ jobAttempts' = 0
    /\ jobPauses' = 0
    /\ jobSucc' = 0
    /\ lastResult' = NoResult
    /\ classified' = LET c == Classify(impl, urls[i + 1]) IN
                     IF classified.on /\ ~c.raises
                     THEN [classified EXCEPT !.seen = @ \cup
                              {[url |-> urls[i + 1], search |-> FALSE,
                                output_template |-> c.output_template,
                                additional_args |-> c.additional_args]}]
                     ELSE classified
    /\ UNCHANGED <<settings, urls, total, success, inflight, jobsAttempted,
                   lastPause, lastCall, finished, notices>>
    /\ UNCHANGED <<dl, singleVars, guiVars, runNo, prevRun>>

(***************************************************************************)
(* Top of the retry loop's body: the attempt-start event, then the call    *)
(* of self.downloader.run_download.                                        *)
(***************************************************************************)
(* a retry made without the extra arguments *)
BatchAttemptDropsArgs ==
    /\ pc = "attempt"
    /\ pc' = "calling"
    /\ lastEvent' = "attempt_start"
    /\ inflight' = inflight + 1
    /\ jobAttempts' = jobAttempts + 1
    /\ jobsAttempted' = IF jobAttempts = 0 THEN jobsAttempted + 1 ELSE jobsAttempted
    /\ lastCall' = <<urls[i], output_template,
                     IF jobAttempts = 0 THEN additional_args ELSE <<>> >>
    /\ UNCHANGED <<settings, urls, total, success, i, attempt, output_template,
                   additional_args, jobPauses, jobSucc, lastResult,
                   lastPause, progress, finished, notices>>
    /\ UNCHANGED <<dl, singleVars, guiVars, runNo, prevRun, classified>>

BatchAttempt ==
    /\ pc = "attempt"
    /\ pc' = "calling"
    /\ lastEvent' = "attempt_start"
    /\ inflight' = inflight + 1
    /\ jobAttempts' = jobAttempts + 1
    /\ jobsAttempted' = IF jobAttempts = 0 THEN jobsAttempted + 1 ELSE jobsAttempted
    /\ lastCall' = <<urls[i], output_template, additional_args>>
    /\ UNCHANGED <<settings, urls, total, success, i, attempt, output_template,
                   additional_args, jobPauses, jobSucc, lastResult,
                   lastPause, progress, finished, notices>>
    /\ UNCHANGED <<dl, singleVars, guiVars, runNo, prevRun, classified>>

(***************************************************************************)
(* run_download returns or raises, and the rest of the loop body runs up   *)
(* to its break, its time.sleep or the end of its last iteration.          *)
(***************************************************************************)
RunDownloadReturns(r) ==
    /\ pc = "calling"
    /\ inflight' = inflight - 1
    /\ lastResult' = r
    /\ LET h == HandleResult(impl, r, attempt, RetryLimit(impl, max_retries)) IN
       /\ success' = success + h.inc
       /\ jobSucc' = jobSucc + h.inc
       /\ lastEvent' = h.event
       /\ IF h.next = "sleep"
          THEN /\ pc' = "sleeping"
               /\ jobPauses' = jobPauses + 1
               /\ lastPause' = SleepSeconds(impl, retry_delay)
          ELSE /\ pc' = "loop"
               /\ UNCHANGED <<jobPauses, lastPause>>
    /\ UNCHANGED <<settings, urls, total, i, attempt, output_template, additional_args,
                   jobAttempts, jobsAttempted, lastCall, progress, finished, notices>>
    /\ UNCHANGED <<dl, singleVars, guiVars, runNo, prevRun, classified>>

(***************************************************************************)
(* time.sleep returns; the retry loop takes its next attempt.              *)
(***************************************************************************)
RetrySleepEnds ==
    /\ pc = "sleeping"
    /\ attempt' = attempt + 1
    /\ pc' = "attempt"
    /\ UNCHANGED <<settings, urls, total, success, i, output_template, additional_args,
                   inflight, jobAttempts, jobPauses, jobSucc, jobsAttempted,
                   lastResult, lastPause, lastCall, progress, finished,
                   notices, lastEvent>>
    /\ UNCHANGED <<dl, singleVars, guiVars, runNo, prevRun, classified>>

(***************************************************************************)
(* After the job loop: self.finished_signal.emit(success, total).          *)
(***************************************************************************)
BatchFinished ==
    /\ pc = "loop"
    /\ i = total
    /\ finished' = Append(finished, <<success, total>>)
    /\ lastEvent' = "summary"
    /\ pc' = "done"
    /\ UNCHANGED <<settings, urls, total, success, i, attempt, output_template,
                   additional_args, inflight, jobAttempts, jobPauses, jobSucc,
                   jobsAttempted, lastResult, lastPause, lastCall, progress,
                   notices>>
    /\ UNCHANGED <<dl, singleVars, guiVars, runNo, prevRun, classified>>

Next ==
    \/ BatchReadUrls
    \/ BatchNextJob
    \/ BatchAttempt
    \/ \E r \in Outcomes : RunDownloadReturns(r)
    \/ RetrySleepEnds
    \/ BatchFinished

Spec == Init /\ [][Next]_vars

(***************************************************************************)
(* The batch thread is a QThread of its own: it keeps running while it has *)
(* a step to take, and a run_download call that is entered returns or      *)
(* raises.                                                                 *)
(***************************************************************************)
FairSpec == Spec /\ WF_vars(Next)

(***************************************************************************)
(* Batch runs against a downloader whose every call returns returncode 0,  *)
(* over the files of Spec and the four-line file                           *)
(* ["https://x/playlist/1", "# comment", "", "https://x/album/2"].         *)
(***************************************************************************)
ScenarioAFile == <<LinePlaylist, LineComment, LineBlank, LineAlbum>>

SuccessInit == InitBatch(Files \cup {ScenarioAFile}) /\ InitWindow /\ classified = NotObserved

SuccessNext ==
    \/ BatchReadUrls
    \/ BatchNextJob
    \/ BatchAttempt
    \/ RunDownloadReturns(WithCode(0))
    \/ RetrySleepEnds
    \/ BatchFinished

SuccessSpec == SuccessInit /\ [][SuccessNext]_vars

(***************************************************************************)
(* The same batch run again.  run is entered once more with the arguments  *)
(* of the run that has ended (start_batch_download builds a new thread     *)
(* from the same widgets).  The for statements bind i and attempt anew;    *)
(* the other local names keep what the earlier run left in them, so that a *)
(* read before an assignment would show.  What the earlier run emitted is  *)
(* kept in prevRun.                                                        *)
(***************************************************************************)
BatchRerun ==
    /\ pc \in {"done", "crashed"}
    /\ runNo < MaxRuns
    /\ runNo' = runNo + 1
    /\ prevRun' = [ended |-> pc, finished |-> finished, progress |-> progress,
                   jobsAttempted |-> jobsAttempted]
    /\ pc' = "start"
    /\ i' = 0
    /\ attempt' = 0
    /\ inflight' = 0
    /\ jobAttempts' = 0
    /\ jobPauses' = 0
    /\ jobSucc' = 0
    /\ jobsAttempted' = 0
    /\ lastResult' = NoResult
    /\ lastPause' = 0
    /\ lastCall' = <<>>
    /\ progress' = <<>>
    /\ finished' = <<>>
    /\ notices' = {}
    /\ lastEvent' = "none"
    /\ UNCHANGED <<settings, urls, total, success, output_template, additional_args>>
    /\ UNCHANGED <<dl, singleVars, guiVars, classified>>

RerunNext ==
    \/ BatchReadUrls
    \/ BatchNextJob
    \/ BatchAttempt
    \/ RunDownloadReturns(WithCode(0))
    \/ RetrySleepEnds
    \/ BatchFinished
    \/ BatchRerun

RerunSpec == SuccessInit /\ [][RerunNext]_vars

(***************************************************************************)
(* Single downloads.                                                       *)
(***************************************************************************)
spotify_com == <<"s", "p", "o", "t", "i", "f", "y", ".", "c", "o", "m">>
spotify_scheme == <<"s", "p", "o", "t", "i", "f", "y", ":">>

(* str.startswith(prefix) *)
HasPrefix(s, prefix) == Len(s) >= Len(prefix) /\ SubSeq(s, 1, Len(prefix)) = prefix

(* texts of url_input *)
TextEmpty == <<>>
TextBlank == <<" ", " ">>
TextPlaylist == <<"s", "p", "o", "t", "i", "f", "y", ".", "c", "o", "m", "/", "p", "l", "a", "y", "l", "i", "s", "t", "/", "1">>
TextAlbumPlaylist == <<" ", "O", "p", "e", "n", ".", "S", "p", "o", "t", "i", "f", "y", ".", "c", "o", "m", "/", "A", "l", "b", "u", "m", "/", "P", "l", "a", "y", "L", "i", "s", "t", " ">>
TextAlbum == <<"s", "p", "o", "t", "i", "f", "y", ":", "a", "l", "b", "u", "m", ":", "2">>
TextTrack == <<" ", "s", "p", "o", "t", "i", "f", "y", ":", "t", "r", "a", "c", "k", ":", "3">>
TextUpperScheme == <<"S", "P", "O", "T", "I", "F", "Y", ":", "t", "r", "a", "c", "k", ":", "3">>
TextQuery == <<"m", "y", " ", "p", "l", "a", "y", "l", "i", "s", "t", " ", "a", "l", "b", "u", "m">>

Texts == {TextEmpty, TextBlank, TextPlaylist, TextAlbumPlaylist, TextAlbum, TextTrack,
          TextUpperScheme, TextQuery}

(* download_type values DownloadThread.run of gui_downloader.py tests for *)
DownloadTypes == {"track", "album", "playlist", "search", "file"}

(***************************************************************************)
(* start_single_download, lines 571-586: what the handler decides from the *)
(* text of url_input and the search check box.                             *)
(***************************************************************************)
(* album tested before playlist *)
SingleDownloadTypeAlbumFirst(text, checked) ==
    LET url == Strip(text) IN
    IF url = <<>> THEN "warning_empty"
    ELSE IF checked THEN "search"
    ELSE IF ~Contains(spotify_com, Lower(url)) /\ ~HasPrefix(url, spotify_scheme)
    THEN "warning_invalid"
    ELSE IF Contains(album, Lower(url)) THEN "track_album"
    ELSE IF Contains(playlist, Lower(url)) THEN "playlist"
    ELSE "track_album"

(* the link test left out *)
SingleDownloadTypeNoLinkTest(text, checked) ==
    LET url == Strip(text) IN
    IF url = <<>> THEN "warning_empty"
    ELSE IF checked THEN "search"
    ELSE IF Contains(playlist, Lower(url)) THEN "playlist"
    ELSE "track_album"

SingleDownloadType(text, checked) ==
    LET url == Strip(text) IN
    IF url = <<>> THEN "warning_empty"
    ELSE IF checked THEN "search"
    ELSE IF ~Contains(spotify_com, Lower(url)) /\ ~HasPrefix(url, spotify_scheme)
    THEN "warning_invalid"
    ELSE IF Contains(playlist, Lower(url)) THEN "playlist"
    ELSE "track_album"

(***************************************************************************)
(* DownloadThread.run up to the result check: the branch on download_type. *)
(* do is "call" (run_download is called with the template and arguments),  *)
(* "file" (the thread reports and returns) or "raise" (the branch raises,  *)
(* or no branch binds result and hasattr(result, ...) raises; the except   *)
(* clause of run catches it).  In gui_downloader.py the playlist branch    *)
(* reads self.__output_dir, which no method assigns.                       *)
(***************************************************************************)
SingleJob(im, type, url) ==
    IF im = "gui_test"
    THEN CASE type = "track_album" ->
                [do |-> "call",
                 output_template |-> IF Contains(album, Lower(url))
                                     THEN "{artist}/{album}/{title}.{output-ext}"
                                     ELSE "{artist} - {title}.{output-ext}",
                 additional_args |-> <<>>]
           [] type = "playlist" ->
                [do |-> "call", output_template |-> "{playlist}/{title}.{output-ext}",
                 additional_args |-> PlaylistArgs]
           [] type = "search" ->
                [do |-> "call", output_template |-> "{artist} - {title}.{output-ext}",
                 additional_args |-> <<>>]
           [] type = "file" ->
                [do |-> "file", output_template |-> "", additional_args |-> <<>>]
           [] OTHER ->
                [do |-> "raise", output_template |-> "", additional_args |-> <<>>]
    ELSE CASE type = "track" ->
                [do |-> "call", output_template |-> "{title}.{output-ext}",
                 additional_args |-> <<>>]
           [] type = "album" ->
                [do |-> "call", output_template |-> "{artist}/{album}/{title}.{output-ext}",
                 additional_args |-> <<>>]
           [] type = "playlist" ->
                [do |-> "raise", output_template |-> "", additional_args |-> <<>>]
           [] type = "search" ->
                [do |-> "call", output_template |-> "{title}.{output-ext} ",
                 additional_args |-> <<>>]
           [] type = "file" ->
                [do |-> "file", output_template |-> "", additional_args |-> <<>>]
           [] OTHER ->
                [do |-> "raise", output_template |-> "", additional_args |-> <<>>]

(***************************************************************************)
(* DownloadThread.run, the result check: the finished_signal emissions it  *)
(* makes for what run_download returned or raised.  A returncode other     *)
(* than 0, 100 and 101 matches no branch of the if/elif chain.             *)
(***************************************************************************)
SingleFinishedSignals(r) ==
    IF r.kind = "raised" THEN << <<FALSE, "exception">> >>
    ELSE IF r.hasattr
    THEN IF r.returncode = 0 THEN << <<TRUE, "success">> >>
         ELSE IF r.returncode = 100 THEN << <<FALSE, "metadata">> >>
         ELSE IF r.returncode = 101 THEN << <<FALSE, "lookup">> >>
         ELSE <<>>
    ELSE << <<FALSE, "failed">> >>

(* download_button.setEnabled(False) left out *)
StartSingleDownloadKeepsButton(text, checked, gs) ==
    /\ impl = "gui_test"
    /\ window = "open"
    /\ download_button
    /\ LET type == SingleDownloadType(text, checked) IN
       IF type \in {"warning_empty", "warning_invalid"}
       THEN /\ guiEvent' = [handler |-> "start_single", text |-> text, search |-> checked,
                            outcome |-> type]
            /\ UNCHANGED <<singleVars, download_button, dirs>>
       ELSE /\ guiEvent' = [handler |-> "start_single", text |-> text, search |-> checked,
                            outcome |-> "started"]
            /\ dirs' = dirs \cup {gs.output_dir}
            /\ download_button' = download_button
            /\ spc' = "start"
            /\ sUrl' = Strip(text)
            /\ sType' = type
            /\ sSettings' = gs
            /\ sCalls' = 0
            /\ sCall' = <<>>
            /\ sResult' = NoResult
            /\ sFinished' = <<>>
            /\ sHandled' = 0
    /\ UNCHANGED <<settings, batchVars, dl, batch_download_button, bHandled, window,
                   classified>>

(* start_single_download of gui_test.py, the click handler of download_button *)
StartSingleDownload(text, checked, gs) ==
    /\ impl = "gui_test"
    /\ window = "open"
    /\ download_button
    /\ LET type == SingleDownloadType(text, checked) IN
       IF type \in {"warning_empty", "warning_invalid"}
       THEN /\ guiEvent' = [handler |-> "start_single", text |-> text, search |-> checked,
                            outcome |-> type]
            /\ UNCHANGED <<singleVars, download_button, dirs>>
       ELSE /\ guiEvent' = [handler |-> "start_single", text |-> text, search |-> checked,
                            outcome |-> "started"]
            /\ dirs' = dirs \cup {gs.output_dir}
            /\ download_button' = FALSE
            /\ spc' = "start"
            /\ sUrl' = Strip(text)
            /\ sType' = type
            /\ sSettings' = gs
            /\ sCalls' = 0
            /\ sCall' = <<>>
            /\ sResult' = NoResult
            /\ sFinished' = <<>>
            /\ sHandled' = 0
    /\ UNCHANGED <<settings, batchVars, dl, batch_download_button, bHandled, window,
                   classified>>

(* DownloadThread(downloader, url, download_type, ...) of gui_downloader.py
   is constructed and started; no code of that file does it, so its
   arguments are any. *)
CreateDownloadThread(url, type, gs) ==
    /\ impl = "gui_downloader"
    /\ spc \in {"none", "done"}
    /\ spc' = "start"
    /\ sUrl' = url
    /\ sType' = type
    /\ sSettings' = gs
    /\ sCalls' = 0
    /\ sCall' = <<>>
    /\ sResult' = NoResult
    /\ sFinished' = <<>>
    /\ sHandled' = 0
    /\ UNCHANGED <<settings, batchVars, dl, guiVars, classified>>

(* DownloadThread.run from its start to the call of run_download, or to its
   end when the branch makes no call *)
DownloadThreadRun ==
    /\ spc = "start"
    /\ dl' = sSettings
    /\ LET j == SingleJob(impl, sType, sUrl) IN
       IF j.do = "call"
       THEN /\ spc' = "calling"
            /\ sCalls' = sCalls + 1
            /\ sCall' = <<sUrl, j.output_template, j.additional_args>>
            /\ UNCHANGED sFinished
       ELSE /\ spc' = "done"
            /\ sFinished' = Append(sFinished,
                                   IF j.do = "file" THEN <<FALSE, "use_batch_tab">>
                                                    ELSE <<FALSE, "exception">>)
            /\ UNCHANGED <<sCalls, sCall>>
    /\ classified' = LET j == SingleJob(impl, sType, sUrl) IN
                     IF classified.on /\ impl = "gui_test" /\ j.do = "call"
                     THEN [classified EXCEPT !.seen = @ \cup
                              {[url |-> sUrl, search |-> (sType = "search"),
                                output_template |-> j.output_template,
                                additional_args |-> j.additional_args]}]
                     ELSE classified
    /\ UNCHANGED <<settings, batchVars, guiVars, sUrl, sType, sSettings, sResult, sHandled>>

(* run_download returns or raises and DownloadThread.run ends *)
DownloadThreadReturns(r) ==
    /\ spc = "calling"
    /\ spc' = "done"
    /\ sResult' = r
    /\ sFinished' = sFinished \o SingleFinishedSignals(r)
    /\ UNCHANGED <<settings, batchVars, dl, guiVars, sUrl, sType, sSettings, sCalls, sCall,
                   sHandled, classified>>

(* download_finished of gui_test.py, the slot of DownloadThread.finished_signal *)
DownloadFinished ==
    /\ impl = "gui_test"
    /\ window = "open"
    /\ sHandled < Len(sFinished)
    /\ sHandled' = sHandled + 1
    /\ download_button' = TRUE
    /\ UNCHANGED <<settings, batchVars, dl, spc, sUrl, sType, sSettings, sCalls, sCall,
                   sResult, sFinished, batch_download_button, bHandled, dirs, guiEvent,
                   window, classified>>

(* no batch thread exists; the spin boxes hold their defaults *)
InitNoBatch ==
    /\ impl \in Impls
    /\ readable = TRUE
    /\ file = <<>>
    /\ max_retries = 5
    /\ retry_delay = 20
    /\ pc = "none"
    /\ urls = <<>>
    /\ total = 0
    /\ success = 0
    /\ i = 0
    /\ attempt = 0
    /\ output_template = ""
    /\ additional_args = <<>>
    /\ inflight = 0
    /\ jobAttempts = 0
    /\ jobPauses = 0
    /\ jobSucc = 0
    /\ jobsAttempted = 0
    /\ lastResult = NoResult
    /\ lastPause = 0
    /\ lastCall = <<>>
    /\ progress = <<>>
    /\ finished = <<>>
    /\ notices = {}
    /\ lastEvent = "none"
    /\ bSettings = NoSettings
    /\ runNo = 0
    /\ prevRun = NoRun

SingleInit == InitNoBatch /\ InitWindow /\ classified = NotObserved

SingleNext ==
    \/ \E text \in Texts, checked \in BOOLEAN, gs \in GuiSettings :
          StartSingleDownload(text, checked, gs)
    \/ \E text \in Texts \ {TextEmpty, TextBlank}, type \in DownloadTypes, gs \in GuiSettings :
          CreateDownloadThread(Strip(text), type, gs)
    \/ DownloadThreadRun
    \/ \E r \in Outcomes : DownloadThreadReturns(r)
    \/ DownloadFinished

SingleSpec == SingleInit /\ [][SingleNext]_vars

(***************************************************************************)
(* Template selections observed: batch runs, entered twice, over files     *)
(* that hold a url more than once with another job between, next to single *)
(* downloads of the same urls.  Every selection made is kept in            *)
(* classified.seen.                                                        *)
(***************************************************************************)
(* a text as a line of a file *)
Line(text) == text \o <<"\n">>

ClassifyFiles == {<<Line(TextTrack), Line(TextAlbum), Line(TextTrack)>>,
                  <<Line(TextAlbumPlaylist), Line(TextPlaylist), Line(TextAlbumPlaylist)>>}
ClassifyTexts == {TextTrack, TextAlbumPlaylist}
(* what run_download does here: it succeeds or it fails with another code *)
ClassifyOutcomes == {WithCode(0), WithCode(1)}

ClassifyInit ==
    /\ InitBatch(ClassifyFiles)
    /\ readable
    /\ max_retries = 1
    /\ retry_delay = 20
    /\ InitWindow
    /\ classified = Observed

ClassifyNext ==
    \/ BatchReadUrls
    \/ BatchNextJob
    \/ BatchAttempt
    \/ \E r \in ClassifyOutcomes : RunDownloadReturns(r)
    \/ RetrySleepEnds
    \/ BatchFinished
    \/ BatchRerun
    \/ \E text \in ClassifyTexts, checked \in BOOLEAN :
          StartSingleDownload(text, checked, DefaultSettings)
    \/ DownloadThreadRun
    \/ \E r \in ClassifyOutcomes : DownloadThreadReturns(r)
    \/ DownloadFinished

ClassifySpec == ClassifyInit /\ [][ClassifyNext]_vars

(***************************************************************************)
(* The window of gui_test.py with both threads.                            *)
(***************************************************************************)
(* inputs of the window's handlers *)
GuiTexts == {TextAlbumPlaylist, TextUpperScheme}
GuiFiles == {<<LineComment>>, <<LineBlank, LineTrack>>}
GuiRetries == {2}
GuiRetryDelays == {20}
(* settings the user picks while the window is used *)
GuiChoices == {OtherSettings}

(* start_batch_download, the click handler of batch_download_button: exists
   is os.path.exists(file_path) for a non-empty path, same is
   use_same_settings_check.isChecked() *)
StartBatchDownload(exists, canRead, lines, same, gs, mr, rd) ==
    /\ impl = "gui_test"
    /\ window = "open"
    /\ batch_download_button
    /\ IF ~exists
       THEN /\ guiEvent' = [handler |-> "start_batch", text |-> <<>>, search |-> FALSE,
                            outcome |-> "warning_file"]
            /\ UNCHANGED <<settings, batchVars, batch_download_button, bHandled, dirs>>
       ELSE /\ guiEvent' = [handler |-> "start_batch", text |-> <<>>, search |-> FALSE,
                            outcome |-> "started"]
            /\ bSettings' = IF same THEN gs ELSE FixedBatchSettings
            /\ dirs' = dirs \cup {IF same THEN gs.output_dir ELSE FixedBatchSettings.output_dir}
            /\ batch_download_button' = FALSE
            /\ readable' = canRead
            /\ file' = IF canRead THEN lines ELSE <<>>
            /\ max_retries' = mr
            /\ retry_delay' = rd
            /\ pc' = "start"
            /\ urls' = <<>>
            /\ total' = 0
            /\ success' = 0
            /\ i' = 0
            /\ attempt' = 0
            /\ output_template' = ""
            /\ additional_args' = <<>>
            /\ inflight' = 0
            /\ jobAttempts' = 0
            /\ jobPauses' = 0
            /\ jobSucc' = 0
            /\ jobsAttempted' = 0
            /\ lastResult' = NoResult
            /\ lastPause' = 0
            /\ lastCall' = <<>>
            /\ progress' = <<>>
            /\ finished' = <<>>
            /\ notices' = {}
            /\ lastEvent' = "none"
            /\ bHandled' = 0
            /\ runNo' = 1
            /\ prevRun' = NoRun
            /\ UNCHANGED impl
    /\ UNCHANGED <<dl, singleVars, download_button, window, classified>>

(* batch_download_finished, the slot of BatchDownloadThread.finished_signal *)
BatchDownloadFinished ==
    /\ impl = "gui_test"
    /\ window = "open"
    /\ bHandled < Len(finished)
    /\ bHandled' = bHandled + 1
    /\ batch_download_button' = TRUE
    /\ UNCHANGED <<settings, batchVars, dl, singleVars, download_button, dirs, guiEvent,
                   window, classified>>

(* run_user_download, reached from the three user-library buttons, which
   differ only in the Downloader method called: it runs on the window's
   thread, makes the directory, asks, and on Yes configures the Downloader
   and calls the download method, whose outcome it reports *)
RunUserDownload(gs, yes, outcome) ==
    /\ impl = "gui_test"
    /\ window = "open"
    /\ dirs' = dirs \cup {gs.output_dir}
    /\ dl' = IF yes THEN gs ELSE dl
    /\ guiEvent' = [handler |-> "run_user_download", text |-> <<>>, search |-> FALSE,
                    outcome |-> IF yes THEN outcome ELSE "declined"]
    /\ UNCHANGED <<settings, batchVars, singleVars, download_button, batch_download_button,
                   bHandled, window, classified>>

GuiInit == InitNoBatch /\ impl = "gui_test" /\ InitWindow /\ classified = NotObserved

GuiNext ==
    \/ \E text \in GuiTexts, checked \in BOOLEAN, gs \in GuiChoices :
          StartSingleDownload(text, checked, gs)
    \/ DownloadThreadRun
    \/ \E r \in Outcomes : DownloadThreadReturns(r)
    \/ DownloadFinished
    \/ \E exists \in BOOLEAN, canRead \in BOOLEAN, lines \in GuiFiles, same \in BOOLEAN,
          gs \in GuiChoices, mr \in GuiRetries, rd \in GuiRetryDelays :
          StartBatchDownload(exists, canRead, lines, same, gs, mr, rd)
    \/ BatchReadUrls
    \/ BatchNextJob
    \/ BatchAttempt
    \/ \E r \in Outcomes : RunDownloadReturns(r)
    \/ RetrySleepEnds
    \/ BatchFinished
    \/ BatchDownloadFinished
    \/ \E gs \in GuiChoices, yes \in BOOLEAN, outcome \in {"success", "failed", "error"} :
          RunUserDownload(gs, yes, outcome)

GuiSpec == GuiInit /\ [][GuiNext]_vars

(***************************************************************************)
(* Closing the window: closeEvent of gui_test.py.  For each thread that    *)
(* isRunning() it calls terminate() and blocks in wait().  terminate()     *)
(* does not say where the thread stops: it may be stopped at once or may   *)
(* run on for a while, so until wait() returns the thread may take further *)
(* steps, and the batch thread is not asked to stop before the wait for    *)
(* the download thread has returned.  No slot or click handler runs while  *)
(* closeEvent is blocked.                                                  *)
(***************************************************************************)
ThreadRunning(p) == p \in {"start", "loop", "attempt", "calling", "sleeping"}

(* the window is closed: lines 881-882, or 885-886, or 889 *)
CloseEvent ==
    /\ impl = "gui_test"
    /\ window = "open"
    /\ window' = IF ThreadRunning(spc) THEN "wait_download_thread"
                 ELSE IF ThreadRunning(pc) THEN "wait_batch_thread"
                 ELSE "closed"
    /\ UNCHANGED <<settings, batchVars, dl, singleVars, download_button,
                   batch_download_button, bHandled, dirs, guiEvent, classified>>

(* download_thread.wait() returns: the thread has been stopped where it was,
   or had ended by itself; lines 883-886, or 889 *)
DownloadThreadWaitReturns ==
    /\ window = "wait_download_thread"
    /\ spc' = IF ThreadRunning(spc) THEN "terminated" ELSE spc
    /\ window' = IF ThreadRunning(pc) THEN "wait_batch_thread" ELSE "closed"
    /\ UNCHANGED <<settings, batchVars, dl, sUrl, sType, sSettings, sCalls, sCall, sResult,
                   sFinished, sHandled, download_button, batch_download_button, bHandled,
                   dirs, guiEvent, classified>>

(* batch_thread.wait() returns: lines 887-889 *)
BatchThreadWaitReturns ==
    /\ window = "wait_batch_thread"
    /\ pc' = IF ThreadRunning(pc) THEN "terminated" ELSE pc
    /\ window' = "closed"
    /\ UNCHANGED <<settings, urls, total, success, i, attempt, output_template,
                   additional_args, inflight, jobAttempts, jobPauses, jobSucc,
                   jobsAttempted, lastResult, lastPause, lastCall, progress, finished,
                   notices, lastEvent, runNo, prevRun>>
    /\ UNCHANGED <<dl, singleVars, download_button, batch_download_button, bHandled, dirs,
                   guiEvent, classified>>

CloseNext ==
    \/ \E text \in GuiTexts, checked \in BOOLEAN, gs \in GuiChoices :
          StartSingleDownload(text, checked, gs)
    \/ DownloadThreadRun
    \/ \E r \in Outcomes : DownloadThreadReturns(r)
    \/ DownloadFinished
    \/ \E exists \in BOOLEAN, canRead \in BOOLEAN, lines \in GuiFiles, same \in BOOLEAN,
          gs \in GuiChoices, mr \in GuiRetries, rd \in GuiRetryDelays :
          StartBatchDownload(exists, canRead, lines, same, gs, mr, rd)
    \/ BatchReadUrls
    \/ BatchNextJob
    \/ BatchAttempt
    \/ \E r \in Outcomes : RunDownloadReturns(r)
    \/ RetrySleepEnds
    \/ BatchFinished
    \/ BatchDownloadFinished
    \/ CloseEvent
    \/ DownloadThreadWaitReturns
    \/ BatchThreadWaitReturns

CloseSpec == GuiInit /\ [][CloseNext]_vars

(***************************************************************************)
(* Properties.                                                             *)
(***************************************************************************)

(* a line that has a non-whitespace character, the first of which is not '#' *)
IsJobLine(line) ==
    \E c \in 1..Len(line) :
        /\ ~IsSpace(line[c])
        /\ \A d \in 1..(c - 1) : IsSpace(line[d])
        /\ line[c] # "#"

JobLineCount(lines) == Cardinality({k \in 1..Len(lines) : IsJobLine(lines[k])})

RunEnded == pc \in {"done", "crashed"}

(* C1: an attempt that returns 100 or 101 is the job's last: once it has
   returned, the runner is at the head of the job loop (or has finished), it
   neither sleeps nor attempts the job again, and the job has added nothing
   to the success count. *)
C1_ClassifiedFailureEndsJob ==
    IsClassified(lastResult) => /\ pc \in {"loop", "done"}
                                /\ jobSucc = 0

(* C2: an unknown failure at attempt k < max_retries is followed by a pause
   of retry_delay seconds and then by attempt k+1 of the same job; at
   k = max_retries the job ends without a pause and without a success. *)
C2_UnknownFailureRetried ==
    [][ /\ (pc = "calling" /\ pc' # "calling" /\ IsUnknown(lastResult')) =>
              IF attempt < max_retries
              THEN /\ pc' = "sleeping"
                   /\ lastPause' = retry_delay
                   /\ jobPauses' = jobPauses + 1
              ELSE /\ pc' = "loop"
                   /\ jobPauses' = jobPauses
                   /\ success' = success
        /\ (pc = "sleeping" /\ pc' # "sleeping") =>
              (pc' = "attempt" /\ attempt' = attempt + 1 /\ i' = i) ]_vars

(* C3: once attempt k has returned 0 the retry loop of the job is over:
   k calls were made for the job, no pause follows, no further attempt is
   made, and the job has added exactly one to the success count. *)
C3_SuccessEndsJob ==
    IsSuccess(lastResult) => /\ pc \in {"loop", "done"}
                             /\ jobAttempts = attempt
                             /\ jobPauses = attempt - 1
                             /\ jobSucc = 1

(* C4: run_download is called at most max_retries times for a job, and a job
   whose first attempt returned 0, 100 or 101 gets no second call. *)
C4_AttemptsWithinMaxRetries ==
    [][ /\ jobAttempts' <= max_retries
        /\ (jobAttempts = 1 /\ i' = i /\ (IsSuccess(lastResult) \/ IsClassified(lastResult)))
              => jobAttempts' = 1 ]_vars

(* C5: the success count never exceeds the number of jobs started, a job
   adds at most one to it, and a summary never reports more successes than
   jobs. *)
C5_SuccessCountBounded ==
    /\ success <= i
    /\ jobSucc <= 1
    /\ \A k \in 1..Len(finished) : finished[k][1] <= finished[k][2]

(* C6: for a readable file with at least one job line, the total of the
   terminal summary is the number of lines that are non-empty after trimming
   and do not begin with '#'. *)
C6_TotalIsJobLineCount ==
    (readable /\ JobLineCount(file) >= 1) =>
        \A k \in 1..Len(finished) : finished[k][2] = JobLineCount(file)

C6_Witness ==
    /\ pc = "done"
    /\ finished # <<>>
    /\ JobLineCount(file) >= 1
    /\ JobLineCount(file) < Len(file)

(* C7: whatever the earlier jobs did, every job of the list gets its
   progress event and at least one call of run_download: when the runner
   leaves a job it has called run_download for it, and a run over a readable
   file ends only after all job lines were started. *)
C7_EveryJobProcessed ==
    /\ (pc \in {"loop", "done", "crashed"} /\ i >= 1) =>
          (Len(progress) = i /\ jobsAttempted = i)
    /\ (RunEnded /\ readable) => i = JobLineCount(file)

(* C8: jobs run one after the other in file order: the progress events are
   (1,total), (2,total), ... in this order, each once, all of them by the
   end of the run; a call of run_download is for the current job; the runner
   moves to another job only when no call is in flight; at most one call is
   in flight. *)
C8_SequentialInFileOrder ==
    /\ [](/\ inflight <= 1
          /\ Len(progress) = i
          /\ \A k \in 1..Len(progress) : progress[k] = <<k, total>>
          /\ (pc = "calling" => (inflight = 1 /\ lastCall[1] = urls[i]))
          /\ (RunEnded /\ readable => Len(progress) = JobLineCount(file)))
    /\ [][i' # i => (inflight = 0 /\ i' = i + 1)]_vars

(* C9: when the file cannot be read the run emits the file-read-error event
   and the summary (0, 0), and does nothing else. *)
C9_UnreadableFile ==
    (~readable /\ pc # "start") =>
        /\ pc = "done"
        /\ "read_error" \in notices
        /\ finished = << <<0, 0>> >>
        /\ progress = <<>>
        /\ jobsAttempted = 0
        /\ inflight = 0

(* C10: when the file is readable and has no job line the run emits the
   "no jobs" warning and the summary (0, 0), no progress event and no call
   of run_download. *)
C10_NoJobs ==
    (readable /\ JobLineCount(file) = 0 /\ pc # "start") =>
        /\ pc = "done"
        /\ "no_jobs" \in notices
        /\ finished = << <<0, 0>> >>
        /\ progress = <<>>
        /\ jobsAttempted = 0
        /\ inflight = 0

C10_Witness ==
    /\ pc = "done"
    /\ readable
    /\ Len(file) >= 1
    /\ JobLineCount(file) = 0
    /\ "no_jobs" \in notices
    /\ finished = << <<0, 0>> >>

(* C11: no failure is fatal to a batch run: the run never ends on an
   unhandled exception, and it eventually emits its terminal summary. *)
C11_RunReachesSummary ==
    /\ [](pc # "crashed")
    /\ <>(pc = "done" /\ Len(finished) = 1)

(* C12: the terminal summary is emitted exactly once per run, after the job
   loop, as the last event, with payload (success, total): never more than
   one summary, a summary only in a finished run whose latest event it is,
   and no run ends without one. *)
C12_SummaryOnceAtEnd ==
    /\ Len(finished) <= 1
    /\ (finished # <<>>) => /\ pc = "done"
                            /\ lastEvent = "summary"
                            /\ finished[1] = <<success, total>>
                            /\ inflight = 0
    /\ RunEnded => Len(finished) = 1

(* C13: a single-job run delivers exactly one finished event whatever the
   downloader does, reporting success exactly when the status is 0. *)
C13_SingleRunOneResult ==
    spc = "done" => /\ Len(sFinished) = 1
                    /\ sFinished[1][1] = IsSuccess(sResult)

(* C14: a single-job run for a track, album, playlist or search job calls
   run_download exactly once, whatever the call returns or raises. *)
C14_SingleRunOneCall ==
    /\ sCalls <= 1
    /\ (spc = "done" /\ sType \in {"track", "album", "track_album", "playlist", "search"})
          => sCalls = 1

(* C16: with search mode off, the call a single download started by
   start_single_download makes carries the output template and the extra
   arguments the batch runner of gui_test.py selects for the same URL. *)
C16_SingleMatchesBatch ==
    (impl = "gui_test" /\ spc = "calling" /\ sType # "search") =>
        /\ sCall[2] = Classify("gui_test", sUrl).output_template
        /\ sCall[3] = Classify("gui_test", sUrl).additional_args

C16_Witness ==
    /\ impl = "gui_test"
    /\ spc = "calling"
    /\ sType = "playlist"
    /\ Contains(album, Lower(sUrl))
    /\ sCall[3] = PlaylistArgs

(* C17: with the search flag set, every text that is not blank becomes a
   search job: it is handed to run_download (trimmed, as the handler reads
   it) with the "{artist} - {title}" template and no extra arguments, also
   when it contains "playlist", "album" or a Spotify link. *)
C17_SearchOverridesClassification ==
    /\ (guiEvent.handler = "start_single" /\ guiEvent.search /\ Strip(guiEvent.text) # <<>>)
          => (guiEvent.outcome = "started" /\ sType = "search" /\ sUrl = Strip(guiEvent.text))
    /\ (spc = "calling" /\ sType = "search")
          => sCall = <<sUrl, "{artist} - {title}.{output-ext}", <<>> >>

(* the handler's link test: after trimming, the text contains "spotify.com"
   in any letter case or starts with "spotify:" *)
IsRecognizedLink(text) ==
    \/ Contains(spotify_com, Lower(Strip(text)))
    \/ HasPrefix(Strip(text), spotify_scheme)

(* C18: a single-job request whose text is empty, or is not a recognized
   link while search mode is off, only gets a validation warning: no thread
   is created or changed, no call is made, the start button stays enabled,
   and the Downloader's configuration and the directories are unchanged. *)
C18_RejectedRequestChangesNothing ==
    [][ (/\ guiEvent' # guiEvent
         /\ guiEvent'.handler = "start_single"
         /\ \/ guiEvent'.text = <<>>
            \/ (~guiEvent'.search /\ ~IsRecognizedLink(guiEvent'.text)))
        => /\ guiEvent'.outcome \in {"warning_empty", "warning_invalid"}
           /\ download_button' /\ download_button
           /\ UNCHANGED <<singleVars, dl, dirs, batchVars, settings, batch_download_button,
                          bHandled>> ]_vars

C18_Witness ==
    /\ guiEvent.handler = "start_single"
    /\ guiEvent.text = TextUpperScheme
    /\ ~guiEvent.search
    /\ guiEvent.outcome = "warning_invalid"
    /\ spc = "none"
    /\ dl = NoSettings
    /\ dirs = {}
    /\ download_button

(* C15: the batch runner classifies by case-insensitive substring with
   priority playlist, album, track: once a job is started its template and
   extra arguments are those of the first match, and run_download is called
   with them. *)
C15_PlaylistAlbumTrackPriority ==
    (pc \notin {"none", "start"} /\ i >= 1) =>
        LET url == urls[i]
            expected ==
                IF Contains(playlist, Lower(url))
                THEN <<"{playlist}/{title}.{output-ext}", PlaylistArgs>>
                ELSE IF Contains(album, Lower(url))
                THEN <<"{artist}/{album}/{title}.{output-ext}", <<>> >>
                ELSE <<"{artist} - {title}.{output-ext}", <<>> >>
        IN /\ output_template = expected[1]
           /\ additional_args = expected[2]
           /\ pc = "calling" => lastCall = <<url, expected[1], expected[2]>>

(* C19: from the moment a batch run has configured the Downloader until its
   terminal summary, the Downloader's bitrate, format and output directory
   are those the run was started with, whatever else the window starts. *)
C19_BatchSettingsStable ==
    pc \in {"loop", "attempt", "calling", "sleeping"} => dl = bSettings

(* C20: when every attempt returns Success, each job of a readable file is
   called exactly once, in file order, no pause is taken, and the summary is
   (n, n) for n job lines; the run over the four-line file ends with (2, 2)
   and calls its playlist job with the {playlist} template and the two
   playlist arguments. *)
C20_AllSuccessRun ==
    /\ jobAttempts <= 1
    /\ jobPauses = 0
    /\ lastPause = 0
    /\ pc = "calling" => lastCall[1] = urls[i]
    /\ (pc = "loop" /\ i >= 1) => (jobAttempts = 1 /\ jobsAttempted = i)
    /\ (RunEnded /\ readable) =>
          (/\ jobsAttempted = JobLineCount(file)
           /\ finished = << <<JobLineCount(file), JobLineCount(file)>> >>)
    /\ (file = ScenarioAFile /\ readable) =>
          /\ RunEnded => finished = << <<2, 2>> >>
          /\ (pc = "calling" /\ i = 1) =>
                lastCall = <<Strip(LinePlaylist), "{playlist}/{title}.{output-ext}", PlaylistArgs>>

(* C21: a batch run entered again with the same file, the same settings and
   a downloader whose every call returns 0 ends as the run before it ended,
   with the same summary, after the same progress events and the same number
   of jobs called: nothing the earlier run left changes it. *)
C21_RerunSameSummary ==
    (runNo >= 2 /\ RunEnded) =>
        /\ pc = prevRun.ended
        /\ finished = prevRun.finished
        /\ progress = prevRun.progress
        /\ jobsAttempted = prevRun.jobsAttempted

C21_Witness ==
    /\ impl = "gui_test"
    /\ runNo = 2
    /\ pc = "done"
    /\ file = ScenarioAFile
    /\ prevRun.finished = << <<2, 2>> >>
    /\ finished = << <<2, 2>> >>

(* C22: the template selection depends only on the url and the search flag:
   any two selections made for the same url and the same flag, by the batch
   runner or by a single download, in one run or in two, with other jobs
   between them, chose the same template (which names the kind) and the same
   extra arguments. *)
C22_ClassificationIsFunction ==
    \A a, b \in classified.seen :
        (a.url = b.url /\ a.search = b.search) => a = b

C22_Witness ==
    /\ impl = "gui_test"
    /\ runNo = 2
    /\ i = 3
    /\ pc = "calling"
    /\ urls[3] = urls[1]
    /\ urls[2] # urls[1]
    /\ spc = "calling"
    /\ sType # "search"
    /\ sUrl = urls[1]
    /\ \E a \in classified.seen : a.url = urls[1] /\ ~a.search
    /\ \E a \in classified.seen : a.url = urls[1] /\ a.search

(* C23: every call of run_download is made right after the attempt-start
   event of its attempt, and once it has returned or raised, an attempt-
   result event (success, non-retryable error, exception or failure) is
   emitted before the runner sleeps, attempts again or goes to the next
   job. *)
C23_AttemptEventsBracketCall ==
    /\ [](pc = "calling" => lastEvent = "attempt_start")
    /\ [][ (pc = "calling" /\ pc' # "calling") =>
              lastEvent' \in {"success", "non_retryable", "exception", "failed"} ]_vars

(* C24: the template and the extra arguments of a job are chosen once,
   before its retry loop: they do not change while the job is the current
   one, every call is made with the job's url and with them, and a retry
   repeats the call of the attempt before it, whatever that attempt
   returned. *)
C24_ClassificationFixedPerJob ==
    [][ /\ (i' = i) => (output_template' = output_template /\
                         additional_args' = additional_args)
        /\ (pc # "calling" /\ pc' = "calling") =>
              lastCall' = <<urls[i], output_template, additional_args>>
        /\ (pc # "calling" /\ pc' = "calling" /\ jobAttempts >= 1) =>
              lastCall' = lastCall ]_vars

C24_Witness ==
    /\ impl = "gui_test"
    /\ pc = "calling"
    /\ jobAttempts >= 3
    /\ IsUnknown(lastResult)
    /\ lastCall = <<urls[i], "{playlist}/{title}.{output-ext}", PlaylistArgs>>

(* C26: in the batch runner of gui_test.py a pause is taken only between two
   attempts of one job: the runner sleeps only after an attempt below
   max_retries, the pauses of a job are its attempts minus one while a call
   is in flight and when the job is left, whatever its attempts returned or
   raised, and so the runner never reaches the next job or the summary out of
   a pause. *)
C26_PausesAreAttemptsMinusOne ==
    impl = "gui_test" =>
        /\ (pc = "sleeping" => (attempt < max_retries /\ jobPauses = jobAttempts))
        /\ (pc = "calling" => jobPauses = jobAttempts - 1)
        /\ ((pc \in {"loop", "done"} /\ i >= 1) =>
               (jobAttempts >= 1 /\ jobPauses = jobAttempts - 1))

C26_Witness ==
    /\ impl = "gui_test"
    /\ pc = "loop"
    /\ i = 1
    /\ max_retries = 3
    /\ jobAttempts = 3
    /\ jobPauses = 2
    /\ lastResult = Raised

(* QThread.isRunning() of the two threads *)
SingleRunning == spc \in {"start", "calling"}
BatchRunning == pc \in {"start", "loop", "attempt", "calling", "sleeping"}

(* C27: in the window of gui_test.py a start button is disabled exactly from
   the start of a run until a finished event of that run has been handled,
   a thread is running only while its button is disabled, and a run is
   started only when no run of its kind was started before or the one before
   has ended and had its finished event handled. *)
C27_OneThreadOfEachKind ==
    /\ [](/\ download_button <=> (spc = "none" \/ sHandled >= 1)
          /\ batch_download_button <=> (pc = "none" \/ bHandled >= 1)
          /\ SingleRunning => ~download_button
          /\ BatchRunning => ~batch_download_button)
    /\ [][ /\ (spc' = "start" /\ spc # "start") =>
                (spc = "none" \/ (spc = "done" /\ sHandled >= 1))
           /\ (pc' = "start" /\ pc # "start") =>
                (pc = "none" \/ (pc = "done" /\ bHandled >= 1)) ]_vars

C27_Witness ==
    /\ spc = "calling"
    /\ ~download_button
    /\ pc = "calling"
    /\ ~batch_download_button
    /\ dirs = {"Music", "BatchDownloads"}
    /\ guiEvent.handler = "start_single"
    /\ guiEvent.outcome = "started"

(* C25: once the window has been asked to close, neither thread starts
   another call of run_download, and the close is accepted only when neither
   the download thread nor the batch thread is running. *)
C25_CloseHonoredAtBoundary ==
    /\ [](window = "closed" => (~SingleRunning /\ ~BatchRunning))
    /\ [][ window # "open" =>
              /\ ~(pc # "calling" /\ pc' = "calling")
              /\ ~(spc # "calling" /\ spc' = "calling") ]_vars

(* C28: the two batch runners are equivalent in what can be observed of
   them: wherever a run stands, both runners would take the same step from
   there: the same outcome for an unreadable file, the same template and
   extra arguments for the next job, the same bound of the retry loop, the
   same continuation (break, sleep, end of loop) and the same change of the
   success count for whatever run_download does, and the same pause. *)
C28_RunnersEquivalent ==
    /\ (pc # "start" /\ ~readable) =>
          (EmitRaises(ReadErrorEmitArgs("gui_downloader")) =
           EmitRaises(ReadErrorEmitArgs("gui_test")))
    /\ (pc = "loop" /\ i < total) =>
          /\ Classify("gui_downloader", urls[i + 1]) = Classify("gui_test", urls[i + 1])
          /\ RetryLimit("gui_downloader", max_retries) = RetryLimit("gui_test", max_retries)
    /\ (pc = "calling") =>
          \A r \in Outcomes :
              LET a == HandleResult("gui_downloader", r, attempt,
                                    RetryLimit("gui_downloader", max_retries))
                  b == HandleResult("gui_test", r, attempt,
                                    RetryLimit("gui_test", max_retries))
              IN a.inc = b.inc /\ a.next = b.next
    /\ (pc = "sleeping") =>
          SleepSeconds("gui_downloader", retry_delay) = SleepSeconds("gui_test", retry_delay)

(* C29: the batch runner validates no url: every line that has text and is
   not a comment is a job, every job the runner has left was handed to
   run_download at least once, no run ends before every job was, and a job
   whose url holds neither "playlist" nor "album" is called with the track
   template "{artist} - {title}" and no extra arguments, Spotify link or
   not. *)
C29_NoValidationInBatch ==
    /\ (readable /\ pc # "start") => Len(urls) = JobLineCount(file)
    /\ (pc \in {"loop", "done", "crashed"} /\ i >= 1) => jobsAttempted = i
    /\ (RunEnded /\ readable) => jobsAttempted = JobLineCount(file)
    /\ (/\ pc = "calling"
        /\ ~Contains(playlist, Lower(urls[i]))
        /\ ~Contains(album, Lower(urls[i]))) =>
          lastCall = <<urls[i], "{artist} - {title}.{output-ext}", <<>> >>

====
